---------------------------- MODULE Spec2Model ----------------------------
(***************************************************************************)
(* Model of the invoice extractor (parse_logic.py) and of the batch loop   *)
(* of the Streamlit front end (app.py).                                    *)
(*                                                                         *)
(* Text is a sequence of one-character strings.  The regular expressions   *)
(* of parse_logic.py are written as pattern terms and interpreted by a     *)
(* backtracking matcher with Python's priorities (leftmost match, greedy   *)
(* and lazy repetition, ordered alternation, capture groups).  A Python    *)
(* float is a decimal number [m, e] standing for m * 10^e, kept            *)
(* normalised, so that values compare by equality.                         *)
(***************************************************************************)
EXTENDS Integers, Sequences, FiniteSets, TLC

(***************************************************************************)
(* Characters and character classes                                        *)
(***************************************************************************)
Digit == {"0", "1", "2", "3", "4", "5", "6", "7", "8", "9"}

UpperLetter == {"A", "B", "C", "D", "E", "F", "G", "H", "I", "J", "K", "L", "M",
                "N", "O", "P", "Q", "R", "S", "T", "U", "V", "W", "X", "Y", "Z"}

LowerToUpper == [c \in {"a", "b", "c", "d", "e", "f", "g", "h", "i", "j", "k", "l", "m",
                        "n", "o", "p", "q", "r", "s", "t", "u", "v", "w", "x", "y", "z"} |->
    CASE c = "a" -> "A" [] c = "b" -> "B" [] c = "c" -> "C" [] c = "d" -> "D"
      [] c = "e" -> "E" [] c = "f" -> "F" [] c = "g" -> "G" [] c = "h" -> "H"
      [] c = "i" -> "I" [] c = "j" -> "J" [] c = "k" -> "K" [] c = "l" -> "L"
      [] c = "m" -> "M" [] c = "n" -> "N" [] c = "o" -> "O" [] c = "p" -> "P"
      [] c = "q" -> "Q" [] c = "r" -> "R" [] c = "s" -> "S" [] c = "t" -> "T"
      [] c = "u" -> "U" [] c = "v" -> "V" [] c = "w" -> "W" [] c = "x" -> "X"
      [] c = "y" -> "Y" [] c = "z" -> "Z"]

LowerLetter == DOMAIN LowerToUpper

\* str.upper() on one character; under re.I two characters match when their
\* upper-case forms agree
Upper(c) == IF c \in LowerLetter THEN LowerToUpper[c] ELSE c

\* str.lower() on one character
Lower(c) == IF c \in UpperLetter
            THEN CHOOSE l \in LowerLetter : LowerToUpper[l] = c
            ELSE c

Letter == UpperLetter \cup LowerLetter

\* \s
Space == {" ", "\n"}

\* \w, the characters between which \b finds no boundary
WordChar == Letter \cup Digit \cup {"_"}

\* the other characters that occur in the documents
Punct == {".", ",", "-", "$", ":", "/", "#"}

\* . under re.S
AnyChar == Letter \cup Digit \cup Space \cup Punct \cup {"_"}

\* [\d,.]
NumChar == Digit \cup {",", "."}

\* [\d,]
AmtChar == Digit \cup {","}

\* [A-Za-z\- ]
DateChar == Letter \cup {"-", " "}

(***************************************************************************)
(* Pattern terms                                                           *)
(***************************************************************************)
\* a literal, matched case-insensitively
Lit(s) == [t |-> "lit", s |-> s]

\* lo to hi characters of a class; hi = -1 is unbounded
Rep(set, lo, hi) == [t |-> "rep", set |-> set, lo |-> lo, hi |-> hi, greedy |-> TRUE]

\* the lazy form, +?
Lazy(set, lo, hi) == [t |-> "rep", set |-> set, lo |-> lo, hi |-> hi, greedy |-> FALSE]

\* group n (0: not capturing) of ordered alternatives
Grp(n, alts) == [t |-> "grp", n |-> n, alts |-> alts]

\* (?: ... )?
Opt(body) == [t |-> "opt", body |-> body]

\* \b
WB == [t |-> "wb"]

\* \s+ and \s*
Sp1 == Rep(Space, 1, -1)
Sp0 == Rep(Space, 0, -1)

(***************************************************************************)
(* The matcher                                                             *)
(***************************************************************************)
NoMatch == [ok |-> FALSE]

\* a group that did not take part in the match: m.group(n) is None
Unset == <<0, 0>>

LitAt(s, text, pos) ==
    /\ pos + Len(s) - 1 <= Len(text)
    /\ \A i \in 1..Len(s) : Upper(text[pos + i - 1]) = Upper(s[i])

RECURSIVE RunLen(_, _, _, _)
\* how many characters of the class follow pos, at most hi of them (hi = -1: any)
RunLen(set, text, pos, hi) ==
    IF hi = 0 \/ pos > Len(text) THEN 0
    ELSE IF text[pos] \notin set THEN 0
    ELSE 1 + RunLen(set, text, pos + 1, IF hi < 0 THEN hi ELSE hi - 1)

IsBoundary(text, pos) ==
    LET before == pos > 1 /\ text[pos - 1] \in WordChar
        after  == pos <= Len(text) /\ text[pos] \in WordChar
    IN  before # after

RECURSIVE CanStart(_, _)
\* whether a match of the items can begin with character c (a necessary condition,
\* used to skip the positions where no match can start)
CanStart(items, c) ==
    IF Len(items) = 0 THEN TRUE
    ELSE LET it == Head(items)
         IN  CASE it.t = "lit" -> Upper(c) = Upper(it.s[1])
               [] it.t = "rep" -> \/ c \in it.set
                                  \/ it.lo = 0 /\ CanStart(Tail(items), c)
               [] it.t = "grp" -> \E a \in 1..Len(it.alts) : CanStart(it.alts[a] \o Tail(items), c)
               [] it.t = "opt" -> \/ CanStart(it.body \o Tail(items), c)
                                  \/ CanStart(Tail(items), c)
               [] OTHER -> CanStart(Tail(items), c)

RECURSIVE MatchAt(_, _, _, _)
RECURSIVE TryRep(_, _, _, _, _, _)
RECURSIVE TryLazy(_, _, _, _, _, _)
RECURSIVE TryAlts(_, _, _, _, _, _)

\* the items of todo matched at pos, in Python's backtracking order
MatchAt(todo, text, pos, caps) ==
    IF Len(todo) = 0 THEN [ok |-> TRUE, end |-> pos, caps |-> caps]
    ELSE LET it   == Head(todo)
             rest == Tail(todo)
         IN  CASE it.t = "lit" ->
                    IF LitAt(it.s, text, pos)
                    THEN MatchAt(rest, text, pos + Len(it.s), caps)
                    ELSE NoMatch
               [] it.t = "rep" ->
                    LET run == RunLen(it.set, text, pos, it.hi)
                    IN  IF run < it.lo THEN NoMatch
                        ELSE IF it.greedy THEN TryRep(it, rest, text, pos, caps, run)
                        ELSE TryLazy(it, rest, text, pos, caps, run)
               [] it.t = "grp" -> TryAlts(it, 1, rest, text, pos, caps)
               [] it.t = "opt" ->
                    LET r == MatchAt(it.body \o rest, text, pos, caps)
                    IN  IF r.ok THEN r ELSE MatchAt(rest, text, pos, caps)
               [] it.t = "end" ->
                    MatchAt(rest, text, pos, [caps EXCEPT ![it.n] = <<it.s, pos>>])
               [] it.t = "wb" ->
                    IF IsBoundary(text, pos) THEN MatchAt(rest, text, pos, caps)
                    ELSE NoMatch

\* a greedy repetition taking k characters, then k - 1, ... down to it.lo
TryRep(it, rest, text, pos, caps, k) ==
    IF k < it.lo THEN NoMatch
    ELSE IF pos + k <= Len(text) /\ ~CanStart(rest, text[pos + k])
    THEN TryRep(it, rest, text, pos, caps, k - 1)
    ELSE LET r == MatchAt(rest, text, pos + k, caps)
         IN  IF r.ok THEN r ELSE TryRep(it, rest, text, pos, caps, k - 1)

\* a lazy repetition: the shortest run after which the rest of the pattern matches
TryLazy(it, rest, text, pos, caps, run) ==
    LET good == {k \in it.lo..run : /\ (pos + k > Len(text) \/ CanStart(rest, text[pos + k]))
                                     /\ MatchAt(rest, text, pos + k, caps).ok}
    IN  IF good = {} THEN NoMatch
        ELSE MatchAt(rest, text, pos + (CHOOSE n \in good : \A o \in good : n <= o), caps)

\* the alternatives of a group, in the order written
TryAlts(it, a, rest, text, pos, caps) ==
    IF a > Len(it.alts) THEN NoMatch
    ELSE LET close == IF it.n = 0 THEN <<>> ELSE <<[t |-> "end", n |-> it.n, s |-> pos]>>
             r     == MatchAt(it.alts[a] \o close \o rest, text, pos, caps)
         IN  IF r.ok THEN r ELSE TryAlts(it, a + 1, rest, text, pos, caps)

NoGroups(p) == [g \in 1..p.groups |-> Unset]

\* re.compile: the items, the number of groups, and the characters a match can
\* begin with
compile(groups, items) ==
    [groups |-> groups, items |-> items, first |-> {c \in AnyChar : CanStart(items, c)}]

\* whether the pattern matches at position i
StartsAt(p, text, i) ==
    /\ text[i] \in p.first \/ text[i] \notin AnyChar
    /\ MatchAt(p.items, text, i, NoGroups(p)).ok

\* pattern.search(text): the match at the leftmost position that has one
Search(p, text) ==
    IF \E i \in 1..Len(text) : StartsAt(p, text, i)
    THEN MatchAt(p.items, text,
                 CHOOSE i \in 1..Len(text) :
                     StartsAt(p, text, i) /\ \A j \in 1..(i - 1) : ~StartsAt(p, text, j),
                 NoGroups(p))
    ELSE NoMatch

\* m.group(n); Unset stands for None
Group(m, n, text) == SubSeq(text, m.caps[n][1], m.caps[n][2] - 1)
IsSet(m, n) == m.caps[n] # Unset

(***************************************************************************)
(* The patterns of parse_logic.py                                          *)
(***************************************************************************)
SHIPPER_PAT == compile(1,
    << Lit(<<"S", "H", "I", "P", "P", "E", "R">>), Sp1, Grp(1, << <<Lazy(AnyChar, 1, -1)>> >>), Sp1, Lit(<<"C", "O", "N", "S", "I", "G", "N", "E", "E">>) >>)

INVOICE_DATE == compile(1,
    << Lit(<<"I", "N", "V", "O", "I", "C", "E">>), Sp1, Lit(<<"D", "A", "T", "E">>), Sp1,
       Grp(1, << <<Rep(Digit, 1, 2), Rep(DateChar, 1, -1), Rep(Digit, 2, 4)>> >>) >>)

ROW_PAT == compile(7,
    << Grp(1, << <<Rep(NumChar, 1, -1)>> >>), Sp0,
       Grp(2, << <<Lit(<<"K", "G">>)>>, <<Lit(<<"K", "G">>), Opt(<<Lit(<<"S">>)>>)>>, <<Lit(<<"L", "B">>)>> >>), Sp1,
       Grp(3, << <<Rep(NumChar, 1, -1)>> >>), Sp0,
       Grp(4, << <<Lit(<<"M", "3">>)>>, <<Lit(<<"C", "B", "M">>)>> >>), Sp1,
       Grp(5, << <<Rep(NumChar, 1, -1)>> >>), Sp0,
       Grp(6, << <<Lit(<<"K", "G">>)>>, <<Lit(<<"K", "G">>), Opt(<<Lit(<<"S">>)>>)>>, <<Lit(<<"L", "B">>)>>,
                 <<Lit(<<"M", "3">>)>>, <<Lit(<<"C", "B", "M">>)>> >>), Sp1,
       Grp(7, << <<Rep(Digit, 1, -1)>> >>), Sp0, Lit(<<"C", "T", "N">>) >>)

KG_PAT == compile(1,
    << Grp(1, << <<Rep(NumChar, 1, -1)>> >>), Sp0, Lit(<<"K", "G">>) >>)

M3_PAT == compile(1,
    << Grp(1, << <<Rep(NumChar, 1, -1)>> >>), Sp0,
       Grp(0, << <<Lit(<<"M", "3">>)>>, <<Lit(<<"C", "B", "M">>)>> >>) >>)

CTN_PAT == compile(1,
    << Grp(1, << <<Rep(Digit, 1, -1)>> >>), Sp0, Lit(<<"C", "T", "N">>) >>)

CHARGEABLE_LINE == compile(2,
    << Lit(<<"C", "H", "A", "R", "G", "E", "A", "B", "L", "E">>), Sp1, Grp(1, << <<Rep(NumChar, 1, -1)>> >>), Sp0,
       Grp(2, << <<Lit(<<"K", "G">>)>>, <<Lit(<<"K", "G">>), Opt(<<Lit(<<"S">>)>>)>>, <<Lit(<<"L", "B">>)>>,
                 <<Lit(<<"M", "3">>)>>, <<Lit(<<"C", "B", "M">>)>> >>) >>)

\* (?:([A-Z]{3})\s+)?
OptCode == Opt(<< Grp(1, << <<Rep(Letter, 3, 3)>> >>), Sp1 >>)

\* ([\d,]+\.\d{2})
Amount2 == Grp(2, << <<Rep(AmtChar, 1, -1), Lit(<<".">>), Rep(Digit, 2, 2)>> >>)

SUBTOTAL_PAT == compile(2,
    << Lit(<<"S", "U", "B", "T", "O", "T", "A", "L">>), Sp1, OptCode, Grp(2, << <<Rep(NumChar, 1, -1)>> >>) >>)

AIR_FRT_PAT == compile(2,
    << Lit(<<"A", "I", "R">>), Sp1, Lit(<<"F", "R", "E", "I", "G", "H", "T">>), Sp1, OptCode, Amount2 >>)

OCEAN_FRT_PAT == compile(2,
    << Grp(0, << <<Lit(<<"O", "C", "E", "A", "N">>)>>, <<Lit(<<"S", "E", "A">>)>> >>), Sp1, Lit(<<"F", "R", "E", "I", "G", "H", "T">>), Sp1,
       OptCode, Amount2 >>)

CURRENCY_ANY == compile(1,
    << WB, Grp(1, << <<Lit(<<"C", "A", "D">>)>>, <<Lit(<<"C", "D", "N">>)>>, <<Lit(<<"C", "$">>)>> >>), WB >>)

(***************************************************************************)
(* Optional values, numbers and strings                                    *)
(***************************************************************************)
\* Python's None, and a value that is present
None == <<>>
Some(v) == <<v>>

\* a float: m * 10^e, normalised so that m carries no trailing zero
RECURSIVE Dec(_, _)
Dec(m, e) ==
    IF m = 0 THEN [m |-> 0, e |-> 0]
    ELSE IF m % 10 = 0 THEN Dec(m \div 10, e + 1)
    ELSE [m |-> m, e |-> e]

DigitVal(c) ==
    CASE c = "0" -> 0 [] c = "1" -> 1 [] c = "2" -> 2 [] c = "3" -> 3 [] c = "4" -> 4
      [] c = "5" -> 5 [] c = "6" -> 6 [] c = "7" -> 7 [] c = "8" -> 8 [] c = "9" -> 9

RECURSIVE int(_)
\* int(s) of a string of digits
int(s) ==
    IF Len(s) = 0 THEN 0
    ELSE 10 * int(SubSeq(s, 1, Len(s) - 1)) + DigitVal(s[Len(s)])

\* s.strip()
Strip(s) ==
    LET ink == {i \in 1..Len(s) : s[i] \notin Space}
    IN  IF ink = {} THEN <<>>
        ELSE SubSeq(s, CHOOSE i \in ink : \A j \in ink : i <= j,
                       CHOOSE i \in ink : \A j \in ink : j <= i)

RECURSIVE CollapseFrom(_, _)
CollapseFrom(s, i) ==
    IF i > Len(s) THEN <<>>
    ELSE IF s[i] \notin Space THEN <<s[i]>> \o CollapseFrom(s, i + 1)
    ELSE IF i > 1 /\ s[i - 1] \in Space THEN CollapseFrom(s, i + 1)
    ELSE <<" ">> \o CollapseFrom(s, i + 1)

\* re.sub(r"\s+", " ", s)
Collapse(s) == CollapseFrom(s, 1)

\* a conversion that gives zero for the text float() rejects
_f_Lenient(s) ==
    LET t      == Strip(SelectSeq(s, LAMBDA c : c # ","))
        points == {i \in 1..Len(t) : t[i] = "."}
        digits == SelectSeq(t, LAMBDA c : c \in Digit)
        frac   == IF points = {} THEN 0 ELSE Len(t) - (CHOOSE i \in points : TRUE)
    IN  IF Cardinality(points) > 1 \/ Len(digits) = 0 \/ Len(digits) + Cardinality(points) # Len(t)
        THEN [err |-> FALSE, v |-> Dec(0, 0)]
        ELSE [err |-> FALSE, v |-> Dec(int(digits), 0 - frac)]

\* _f: the float of a matched token, commas removed; float() raises ValueError
\* unless the rest is digits with at most one point and at least one digit
_f(s) ==
    LET t      == Strip(SelectSeq(s, LAMBDA c : c # ","))
        points == {i \in 1..Len(t) : t[i] = "."}
        digits == SelectSeq(t, LAMBDA c : c \in Digit)
        frac   == IF points = {} THEN 0 ELSE Len(t) - (CHOOSE i \in points : TRUE)
    IN  IF Cardinality(points) > 1 \/ Len(digits) = 0 \/ Len(digits) + Cardinality(points) # Len(t)
        THEN [err |-> TRUE]
        ELSE [err |-> FALSE, v |-> Dec(int(digits), 0 - frac)]

\* the factor 0.453592 of _to_kg, in millionths
LbToKgMicro == 453592

\* _to_kg without unit.lower(): "KG" is taken for pounds
_to_kg_CaseSensitive(val, unit) ==
    IF Len(unit) >= 2 /\ unit[1] = "k" /\ unit[2] = "g"
    THEN val
    ELSE Dec(val.m * LbToKgMicro, val.e - 6)

\* _to_kg: pounds to kilograms unless the unit starts with "kg"
_to_kg(val, unit) ==
    IF Len(unit) >= 2 /\ Lower(unit[1]) = "k" /\ Lower(unit[2]) = "g"
    THEN val
    ELSE Dec(val.m * LbToKgMicro, val.e - 6)

\* unit.lower() in ("kg", "kgs", "lb")
IsMassUnit(unit) ==
    LET u == [i \in 1..Len(unit) |-> Lower(unit[i])]
    IN  u \in {<<"k", "g">>, <<"k", "g", "s">>, <<"l", "b">>}

USD == <<"U", "S", "D">>
CAD == <<"C", "A", "D">>

(***************************************************************************)
(* The field extractors of parse_pdf_bytes                                 *)
(***************************************************************************)
\* Invoice date: m is INVOICE_DATE.search(full)
InvoiceDateFrom(full, m) == IF m.ok THEN Some(Strip(Group(m, 1, full))) ELSE None

InvoiceDateOf(full) == InvoiceDateFrom(full, Search(INVOICE_DATE, full))

\* the currency step whose last default is "CAD"
CurrencyFrom_DefaultCad(full, s, a, o, any) ==
    IF s.ok /\ IsSet(s, 1) THEN Group(s, 1, full)
    ELSE IF a.ok /\ IsSet(a, 1) THEN Group(a, 1, full)
    ELSE IF o.ok /\ IsSet(o, 1) THEN Group(o, 1, full)
    ELSE CAD

\* Currency (default USD, CAD heuristics preserved): s, a, o and any are the
\* searches of SUBTOTAL_PAT, AIR_FRT_PAT, OCEAN_FRT_PAT and CURRENCY_ANY
CurrencyFrom(full, s, a, o, any) ==
    IF s.ok /\ IsSet(s, 1) THEN Group(s, 1, full)
    ELSE IF a.ok /\ IsSet(a, 1) THEN Group(a, 1, full)
    ELSE IF o.ok /\ IsSet(o, 1) THEN Group(o, 1, full)
    ELSE IF any.ok THEN CAD
    ELSE USD

CurrencyOf(full) ==
    CurrencyFrom(full, Search(SUBTOTAL_PAT, full), Search(AIR_FRT_PAT, full),
                 Search(OCEAN_FRT_PAT, full), Search(CURRENCY_ANY, full))

\* Shipper: m is SHIPPER_PAT.search(full)
ShipperFrom(full, m) == IF m.ok THEN Some(Collapse(Strip(Group(m, 1, full)))) ELSE None

ShipperOf(full) == ShipperFrom(full, Search(SHIPPER_PAT, full))

\* Detail row (weight, volume, chargeable, cartons): m is the match of ROW_PAT
RowDetail(full, m) ==
    LET w == _f(Group(m, 1, full))
        v == _f(Group(m, 3, full))
        c == _f(Group(m, 5, full))
        c_unit == Group(m, 6, full)
    IN  IF w.err \/ v.err \/ c.err THEN [err |-> TRUE]
        ELSE [err    |-> FALSE,
              w_kg   |-> Some(_to_kg(w.v, Group(m, 2, full))),
              v_m3   |-> Some(v.v),
              packs  |-> Some(int(Group(m, 7, full))),
              c_kg   |-> IF IsMassUnit(c_unit) THEN Some(_to_kg(c.v, c_unit)) ELSE None,
              c_cbm  |-> IF IsMassUnit(c_unit) THEN None ELSE Some(c.v)]

\* the scans made when ROW_PAT does not match: k, v and n are the searches of
\* KG_PAT, M3_PAT and CTN_PAT
ScanDetail(full, k, v, n) ==
    LET w == IF k.ok THEN _f(Group(k, 1, full)) ELSE [err |-> FALSE]
        x == IF v.ok THEN _f(Group(v, 1, full)) ELSE [err |-> FALSE]
    IN  IF w.err \/ x.err THEN [err |-> TRUE]
        ELSE [err    |-> FALSE,
              w_kg   |-> IF k.ok THEN Some(w.v) ELSE None,
              v_m3   |-> IF v.ok THEN Some(x.v) ELSE None,
              packs  |-> IF n.ok THEN Some(int(Group(n, 1, full))) ELSE None,
              c_kg   |-> None,
              c_cbm  |-> None]

\* the detail step whose scans run after the combined row too, and overwrite
\* what it set
DetailFrom_ScansOverwrite(full, m) ==
    LET s == ScanDetail(full, Search(KG_PAT, full), Search(M3_PAT, full), Search(CTN_PAT, full))
    IN  IF ~m.ok THEN s
        ELSE IF s.err \/ RowDetail(full, m).err THEN [err |-> TRUE]
        ELSE [RowDetail(full, m) EXCEPT
                 !.w_kg  = IF s.w_kg # None THEN s.w_kg ELSE @,
                 !.v_m3  = IF s.v_m3 # None THEN s.v_m3 ELSE @,
                 !.packs = IF s.packs # None THEN s.packs ELSE @]

\* the detail step: the combined row when ROW_PAT matches, else the three scans
DetailFrom(full, m) ==
    IF m.ok THEN RowDetail(full, m)
    ELSE ScanDetail(full, Search(KG_PAT, full), Search(M3_PAT, full), Search(CTN_PAT, full))

DetailOf(full) == DetailFrom(full, Search(ROW_PAT, full))

\* the override that sets its own field and leaves the other as the detail
\* step set it
ChargeableFrom_KeepsOther(full, d, m) ==
    LET val  == _f(Group(m, 1, full))
        unit == Group(m, 2, full)
    IN  IF ~m.ok THEN d
        ELSE IF val.err THEN [err |-> TRUE]
        ELSE IF IsMassUnit(unit)
        THEN [d EXCEPT !.c_kg = Some(_to_kg(val.v, unit))]
        ELSE [d EXCEPT !.c_cbm = Some(val.v)]

\* the override that applies only when the detail step set no chargeable field
ChargeableFrom_OnlyIfUnset(full, d, m) ==
    LET val  == _f(Group(m, 1, full))
        unit == Group(m, 2, full)
    IN  IF ~m.ok \/ d.c_kg # None \/ d.c_cbm # None THEN d
        ELSE IF val.err THEN [err |-> TRUE]
        ELSE IF IsMassUnit(unit)
        THEN [d EXCEPT !.c_kg = Some(_to_kg(val.v, unit)), !.c_cbm = None]
        ELSE [d EXCEPT !.c_cbm = Some(val.v), !.c_kg = None]

\* CHARGEABLE line override of the detail step's result d: m is
\* CHARGEABLE_LINE.search(full)
ChargeableFrom(full, d, m) ==
    LET val  == _f(Group(m, 1, full))
        unit == Group(m, 2, full)
    IN  IF ~m.ok THEN d
        ELSE IF val.err THEN [err |-> TRUE]
        ELSE IF IsMassUnit(unit)
        THEN [d EXCEPT !.c_kg = Some(_to_kg(val.v, unit)), !.c_cbm = None]
        ELSE [d EXCEPT !.c_cbm = Some(val.v), !.c_kg = None]

\* an exception of the detail step leaves the override unreached
ChargeableOverride(full, d) ==
    IF d.err THEN d ELSE ChargeableFrom(full, d, Search(CHARGEABLE_LINE, full))

\* Money, the subtotal: m is SUBTOTAL_PAT.search(full)
SubtotalFrom(full, m) ==
    LET v == _f(Group(m, 2, full))
    IN  IF ~m.ok THEN [err |-> FALSE, subtotal |-> None]
        ELSE IF v.err THEN [err |-> TRUE]
        ELSE [err |-> FALSE, subtotal |-> Some(v.v)]

SubtotalOf(full) == SubtotalFrom(full, Search(SUBTOTAL_PAT, full))

\* the freight line found by pattern m, reported as the given mode
FreightLine(full, m, mode) ==
    LET v == _f(Group(m, 2, full))
    IN  IF v.err THEN [err |-> TRUE]
        ELSE [err |-> FALSE, mode |-> Some(mode), amount |-> Some(v.v)]

\* the freight step that tries the ocean line before the air line
FreightFrom_OceanFirst(full, a, o) ==
    IF o.ok THEN FreightLine(full, o, <<"O", "c", "e", "a", "n">>)
    ELSE IF a.ok THEN FreightLine(full, a, <<"A", "i", "r">>)
    ELSE [err |-> FALSE, mode |-> None, amount |-> None]

\* Money, the freight line: a and o are the searches of AIR_FRT_PAT and
\* OCEAN_FRT_PAT, tried in that order
FreightFrom(full, a, o) ==
    IF a.ok THEN FreightLine(full, a, <<"A", "i", "r">>)
    ELSE IF o.ok THEN FreightLine(full, o, <<"O", "c", "e", "a", "n">>)
    ELSE [err |-> FALSE, mode |-> None, amount |-> None]

FreightOf(full) == FreightFrom(full, Search(AIR_FRT_PAT, full), Search(OCEAN_FRT_PAT, full))

(***************************************************************************)
(* The documents: a PDF is a sequence of pages, each holding one line of   *)
(* an invoice.  Beside its text, a page records what the line states, for  *)
(* the properties to compare the extraction with.                          *)
(***************************************************************************)
\* a numeric token float() rejects
Malformed == [malformed |-> TRUE]

\* what a line can state: the combined row, a standalone KG, M3/CBM or CTN
\* token, a CHARGEABLE line, a subtotal, an air or ocean freight line, a date, a
\* shipper, a standalone weight in pounds (lb, in kilograms), a CAD, CDN or C$
\* token (tok), and a C$ token followed by a space (spaced)
NoFacts == [row |-> None, kg |-> None, m3 |-> None, ctn |-> None, chg |-> None,
            sub |-> None, air |-> None, ocean |-> None, date |-> None,
            shipper |-> None, lb |-> None, tok |-> FALSE, spaced |-> FALSE]

Line(text, facts) == facts @@ [text |-> Some(text)] @@ NoFacts

PAGES ==
    [id \in {"BLANK", "R1", "R2", "R3", "R4", "W1", "W2", "W3", "V1", "P1",
             "CH1", "CH2", "CH3", "CH4", "S1", "S2", "S3", "A1", "A2", "A3",
             "O1", "O2", "B2", "B3", "B4", "B5", "D1", "SH1"} |->
     CASE id = "BLANK" -> [text |-> None] @@ NoFacts
       [] id = "R1" -> Line(<<"1", "2", "0", ".", "5", " ", "K", "G", " ", "2", ".", "3", " ", "M", "3", " ", "1", "3", "0", ".", "0", " ", "K", "G", " ", "5", " ", "C", "T", "N">>,
            [row |-> Some([w_kg |-> Some(Dec(1205, -1)), v_m3 |-> Some(Dec(23, -1)),
                           c_kg |-> Some(Dec(130, 0)), c_cbm |-> None, packs |-> Some(5)]),
             kg |-> Some(Dec(1205, -1)), m3 |-> Some(Dec(23, -1)), ctn |-> Some(5)])
       [] id = "R2" -> Line(<<"1", "0", " ", "L", "B", " ", "2", ".", "3", " ", "C", "B", "M", " ", "3", ".", "1", " ", "M", "3", " ", "1", "2", " ", "C", "T", "N">>,
            [row |-> Some([w_kg |-> Some(Dec(453592, -5)), v_m3 |-> Some(Dec(23, -1)),
                           c_kg |-> None, c_cbm |-> Some(Dec(31, -1)), packs |-> Some(12)]),
             m3 |-> Some(Dec(23, -1)), ctn |-> Some(12)])
       [] id = "R3" -> Line(<<"1", "0", "k", "g", "s", " ", "2", " ", "m", "3", " ", "3", " ", "l", "b", " ", "7", " ", "c", "t", "n">>,
            [row |-> Some([w_kg |-> Some(Dec(10, 0)), v_m3 |-> Some(Dec(2, 0)),
                           c_kg |-> Some(Dec(1360776, -6)), c_cbm |-> None, packs |-> Some(7)]),
             kg |-> Some(Dec(10, 0)), m3 |-> Some(Dec(2, 0)), ctn |-> Some(7)])
       [] id = "R4" -> Line(<<"1", ".", "2", ".", "3", " ", "K", "G", " ", "2", " ", "M", "3", " ", "3", " ", "K", "G", " ", "5", " ", "C", "T", "N">>,
            [row |-> Some(Malformed), kg |-> Some(Malformed), m3 |-> Some(Dec(2, 0)),
             ctn |-> Some(5)])
       [] id = "W1" -> Line(<<"G", "R", "O", "S", "S", " ", "5", "5", ".", "5", " ", "K", "G", "S">>, [kg |-> Some(Dec(555, -1))])
       [] id = "W2" -> Line(<<"N", "E", "T", " ", "1", "0", " ", "L", "B">>, [lb |-> Some(Dec(453592, -5))])
       [] id = "W3" -> Line(<<"T", "A", "R", "E", " ", ".", ".", " ", "K", "G">>, [kg |-> Some(Malformed)])
       [] id = "V1" -> Line(<<"V", "O", "L", " ", "1", ".", "2", "5", " ", "C", "B", "M">>, [m3 |-> Some(Dec(125, -2))])
       [] id = "P1" -> Line(<<"8", " ", "C", "T", "N">>, [ctn |-> Some(8)])
       [] id = "CH1" -> Line(<<"C", "H", "A", "R", "G", "E", "A", "B", "L", "E", " ", "3", ".", "1", " ", "C", "B", "M">>,
            [chg |-> Some([c_kg |-> None, c_cbm |-> Some(Dec(31, -1))]),
             m3 |-> Some(Dec(31, -1))])
       [] id = "CH2" -> Line(<<"C", "H", "A", "R", "G", "E", "A", "B", "L", "E", " ", "1", "4", "0", " ", "K", "G">>,
            [chg |-> Some([c_kg |-> Some(Dec(140, 0)), c_cbm |-> None]),
             kg |-> Some(Dec(140, 0))])
       [] id = "CH3" -> Line(<<"C", "h", "a", "r", "g", "e", "a", "b", "l", "e", " ", "1", "0", " ", "l", "b">>,
            [chg |-> Some([c_kg |-> Some(Dec(453592, -5)), c_cbm |-> None])])
       [] id = "CH4" -> Line(<<"C", "H", "A", "R", "G", "E", "A", "B", "L", "E", " ", "1", ".", "2", ".", "3", " ", "M", "3">>,
            [chg |-> Some(Malformed), m3 |-> Some(Malformed)])
       [] id = "S1" -> Line(<<"S", "U", "B", "T", "O", "T", "A", "L", " ", "C", "A", "D", " ", "1", "0", "0", ".", "0", "0">>,
            [sub |-> Some([code |-> Some(<<"C", "A", "D">>), val |-> Dec(100, 0)]), tok |-> TRUE])
       [] id = "S2" -> Line(<<"S", "U", "B", "T", "O", "T", "A", "L", " ", "1", ",", "0", "0", "0", ".", "5", "0">>,
            [sub |-> Some([code |-> None, val |-> Dec(10005, -1)])])
       [] id = "S3" -> Line(<<"S", "u", "b", "t", "o", "t", "a", "l", " ", "j", "p", "y", " ", "1", ".", "2", ".", "3">>,
            [sub |-> Some([code |-> Some(<<"j", "p", "y">>), val |-> Malformed])])
       [] id = "A1" -> Line(<<"A", "I", "R", " ", "F", "R", "E", "I", "G", "H", "T", " ", "E", "U", "R", " ", "4", "5", "0", ".", "0", "0">>,
            [air |-> Some([code |-> Some(<<"E", "U", "R">>), val |-> Dec(450, 0)])])
       [] id = "A2" -> Line(<<"A", "i", "r", " ", "F", "r", "e", "i", "g", "h", "t", " ", "7", "5", ".", "5", "0">>,
            [air |-> Some([code |-> None, val |-> Dec(755, -1)])])
       [] id = "A3" -> Line(<<"A", "I", "R", " ", "F", "R", "E", "I", "G", "H", "T", " ", "M", "X", "N", " ", "4", "5", "0">>, NoFacts)
       [] id = "O1" -> Line(<<"O", "C", "E", "A", "N", " ", "F", "R", "E", "I", "G", "H", "T", " ", "G", "B", "P", " ", "9", "0", "0", ".", "0", "0">>,
            [ocean |-> Some([code |-> Some(<<"G", "B", "P">>), val |-> Dec(900, 0)])])
       [] id = "O2" -> Line(<<"S", "E", "A", " ", "F", "R", "E", "I", "G", "H", "T", " ", "1", ",", "0", "2", "0", ".", "0", "5">>,
            [ocean |-> Some([code |-> None, val |-> Dec(102005, -2)])])
       [] id = "B2" -> Line(<<"c", "d", "n">>, [tok |-> TRUE])
       [] id = "B3" -> Line(<<"C", "$", " ", "5", "0">>, [tok |-> TRUE, spaced |-> TRUE])
       [] id = "B4" -> Line(<<"C", "$", "5", "0">>, [tok |-> TRUE])
       [] id = "B5" -> Line(<<"P", "a", "y", " ", "i", "n", " ", "U", "S", "D">>, NoFacts)
       [] id = "D1" -> Line(<<"I", "N", "V", "O", "I", "C", "E", " ", "D", "A", "T", "E", " ", "1", "2", "-", "J", "a", "n", "-", "2", "0", "2", "4">>, [date |-> Some(<<"1", "2", "-", "J", "a", "n", "-", "2", "0", "2", "4">>)])
       [] id = "SH1" -> Line(<<"S", "H", "I", "P", "P", "E", "R", " ", " ", "A", "c", "m", "e", " ", " ", " ", "C", "o", ".", " ", " ", "C", "O", "N", "S", "I", "G", "N", "E", "E">>,
            [shipper |-> Some(<<"A", "c", "m", "e", " ", "C", "o", ".">>)])]

PageId == DOMAIN PAGES

\* bytes pdfplumber cannot open
NotAPdf == [valid |-> FALSE, pages |-> <<>>]

Pdf(pages) == [valid |-> TRUE, pages |-> pages]

RECURSIVE JoinPages(_, _)
\* "\n".join(p.extract_text() or "" for p in pdf.pages)
JoinPages(pages, i) ==
    IF i > Len(pages) THEN <<>>
    ELSE LET t    == PAGES[pages[i]].text
             text == IF t = None THEN <<>> ELSE t[1]
         IN  IF i = Len(pages) THEN text ELSE text \o <<"\n">> \o JoinPages(pages, i + 1)

\* _extract_full_text: raises when pdfplumber cannot open the bytes
_extract_full_text(pdf_bytes) ==
    IF ~pdf_bytes.valid THEN [err |-> TRUE]
    ELSE [err |-> FALSE, text |-> JoinPages(pdf_bytes.pages, 1)]

(***************************************************************************)
(* parse_pdf_bytes                                                         *)
(***************************************************************************)
HEADERS == <<"Timestamp", "Filename", "Invoice_Date", "Currency", "Shipper",
             "Weight_KG", "Volume_M3", "Chargeable_KG", "Chargeable_CBM",
             "Packages", "Subtotal", "Freight_Mode", "Freight_Amount">>

\* the minimal row of the except branch, also built by the loop of app.py
MinimalRow(filename, now) ==
    [Timestamp      |-> now,
     Filename       |-> filename,
     Invoice_Date   |-> None,
     Currency       |-> None,
     Shipper        |-> None,
     Weight_KG      |-> None,
     Volume_M3      |-> None,
     Chargeable_KG  |-> None,
     Chargeable_CBM |-> None,
     Packages       |-> None,
     Subtotal       |-> None,
     Freight_Mode   |-> None,
     Freight_Amount |-> None]

\* the row of the normal return
FullRow(filename, now, full, d, s, f) ==
    [Timestamp      |-> now,
     Filename       |-> filename,
     Invoice_Date   |-> InvoiceDateOf(full),
     Currency       |-> Some(CurrencyOf(full)),
     Shipper        |-> ShipperOf(full),
     Weight_KG      |-> d.w_kg,
     Volume_M3      |-> d.v_m3,
     Chargeable_KG  |-> d.c_kg,
     Chargeable_CBM |-> d.c_cbm,
     Packages       |-> d.packs,
     Subtotal       |-> s.subtotal,
     Freight_Mode   |-> f.mode,
     Freight_Amount |-> f.amount]

\* the return of the try block, or the exception of a step
Assemble(filename, now, full, d, s, f) ==
    IF d.err \/ s.err \/ f.err THEN [err |-> TRUE]
    ELSE [err |-> FALSE, row |-> FullRow(filename, now, full, d, s, f)]

\* the steps of the try block on the extracted text
TryText(filename, now, full) ==
    Assemble(filename, now, full, ChargeableOverride(full, DetailOf(full)),
             SubtotalOf(full), FreightOf(full))

\* the body of the try block: an exception of any step abandons it
TryBody(pdf_bytes, filename, now) ==
    IF _extract_full_text(pdf_bytes).err THEN [err |-> TRUE]
    ELSE TryText(filename, now, _extract_full_text(pdf_bytes).text)

\* parse_pdf_bytes without its "except Exception": the exception of a step
\* reaches the caller
Guarded_Propagates(filename, now, r) ==
    [raised |-> r.err,
     row    |-> IF r.err THEN <<>> ELSE r.row]

\* what parse_pdf_bytes returns when the try block ended as r
Guarded(filename, now, r) ==
    [raised |-> FALSE,
     row    |-> IF r.err THEN MinimalRow(filename, now) ELSE r.row]

\* parse_pdf_bytes: the row of the try block, or the minimal row of "except Exception"
parse_pdf_bytes(pdf_bytes, filename, now) ==
    Guarded(filename, now, TryBody(pdf_bytes, filename, now))

(***************************************************************************)
(* app.py: the invoice id of a file name and the pieces of a log line      *)
(***************************************************************************)
\* (SY\d+[A-Z]?), searched in filename.upper()
ID_PAT == compile(1,
    << Grp(1, << <<Lit(<<"S", "Y">>), Rep(Digit, 1, -1), Rep(UpperLetter, 0, 1)>> >>) >>)

\* extract_invoice_id: the id found in the upper-cased name, else the name itself
IdFrom(name, upper, m) == IF m.ok THEN Group(m, 1, upper) ELSE name

\* filename.upper()
UpperCase(name) == [i \in 1..Len(name) |-> Upper(name[i])]

extract_invoice_id(name) ==
    IdFrom(name, UpperCase(name), Search(ID_PAT, UpperCase(name)))

\* row.get(key) or "-" in a log line
OrDash(v) == IF v = None \/ v = Some(<<>>) THEN <<"-">> ELSE v[1]

\* the line logged for a parsed file
OkLine(invoice_id, row) ==
    [ok |-> TRUE, id |-> invoice_id, date |-> OrDash(row.Invoice_Date),
     currency |-> OrDash(row.Currency), mode |-> OrDash(row.Freight_Mode),
     amount |-> row.Freight_Amount]

\* the line logged by the except branch of the loop
ErrLine(invoice_id) == [ok |-> FALSE, id |-> invoice_id]

(***************************************************************************)
(* State                                                                   *)
(***************************************************************************)
\* pages per document
MaxPages == 2

\* files per upload
MaxFiles == 2

RECURSIVE SeqsUpTo(_, _)
SeqsUpTo(S, n) ==
    IF n = 0 THEN {<<>>}
    ELSE LET shorter == SeqsUpTo(S, n - 1)
         IN  shorter \cup {Append(q, x) : q \in shorter, x \in S}

\* the PDF inputs of parse_pdf_bytes
Pdfs == {NotAPdf} \cup {Pdf(p) : p \in SeqsUpTo(PageId, MaxPages)}

\* the labels a caller passes
Labels == {<<"S", "Y", "0", "0", "5", "1", "4", "3", "2", "A">>, <<>>}

\* the calls checked: every document under the first label, the short ones under
\* every label
Calls ==
    {c \in [pdf : Pdfs, label : Labels] : Len(c.pdf.pages) <= 1 \/ c.label = <<"S", "Y", "0", "0", "5", "1", "4", "3", "2", "A">>}

\* uploaded file names, with the invoice id each carries
NAMES ==
    { [name |-> <<"i", "n", "v", "o", "i", "c", "e", "-", "S", "Y", "0", "0", "5", "1", "4", "3", "2", "A", ".", "p", "d", "f">>, id |-> <<"S", "Y", "0", "0", "5", "1", "4", "3", "2", "A">>],
      [name |-> <<"s", "y", "0", "0", "5", "0", "2", "2", "7", ".", "P", "D", "F">>,          id |-> <<"S", "Y", "0", "0", "5", "0", "2", "2", "7">>],
      [name |-> <<"s", "c", "a", "n", ".", "p", "d", "f">>,               id |-> <<"s", "c", "a", "n", ".", "p", "d", "f">>] }

\* the contents uploaded in a batch
BatchPdfs == {NotAPdf, Pdf(<<"R1">>), Pdf(<<"W3">>)}

\* an uploaded file; read() of an unreadable one raises
Files ==
    {[name |-> n.name, data |-> d, readable |-> TRUE] : n \in NAMES, d \in BatchPdfs}
    \cup {[name |-> n.name, data |-> NotAPdf, readable |-> FALSE] : n \in NAMES}

VARIABLES
    pdf_bytes,  \* parse_pdf_bytes: the bytes passed
    filename,   \* parse_pdf_bytes: the label passed
    outcome,    \* parse_pdf_bytes: what the call produced
    clock,      \* datetime.now()
    uploaded,   \* app.py: the uploaded files
    pos,        \* app.py: the file the loop is at
    rows,       \* app.py: rows
    log         \* app.py: log

vars == <<pdf_bytes, filename, outcome, clock, uploaded, pos, rows, log>>

NotCalled == [done |-> FALSE, raised |-> FALSE, row |-> <<>>]

\* a call of parse_pdf_bytes about to be made
Init ==
    /\ \E c \in Calls : pdf_bytes = c.pdf /\ filename = c.label
    /\ outcome = NotCalled
    /\ clock = 1
    /\ uploaded = <<>>
    /\ pos = 1
    /\ rows = <<>>
    /\ log = <<>>

Returned(r) == [done |-> TRUE, raised |-> r.raised, row |-> r.row]

\* the call of parse_pdf_bytes
Call ==
    /\ ~outcome.done
    /\ outcome' = Returned(parse_pdf_bytes(pdf_bytes, filename, clock))
    /\ clock' = clock + 1
    /\ UNCHANGED <<pdf_bytes, filename, uploaded, pos, rows, log>>

Next == Call

Spec == Init /\ [][Next]_vars

\* the script of app.py after an upload, before the loop
InitBatch ==
    /\ uploaded \in SeqsUpTo(Files, MaxFiles)
    /\ pos = 1
    /\ rows = <<>>
    /\ log = <<>>
    /\ clock = 1
    /\ pdf_bytes = NotAPdf
    /\ filename = <<>>
    /\ outcome = NotCalled

\* the try block of the loop for file f: read, parse, overwrite Filename, append
TryFile(f, invoice_id, r) ==
    /\ f.readable
    /\ ~r.raised
    /\ rows' = Append(rows, [r.row EXCEPT !.Filename = invoice_id])
    /\ log' = Append(log, OkLine(invoice_id, r.row))

\* an except branch that logs the failure and appends no row
ExceptFile_DropsRow(f, invoice_id, r) ==
    /\ ~f.readable \/ r.raised
    /\ rows' = rows
    /\ log' = Append(log, ErrLine(invoice_id))

\* the except branch of the loop for file f
ExceptFile(f, invoice_id, r) ==
    /\ ~f.readable \/ r.raised
    /\ rows' = Append(rows, MinimalRow(invoice_id, clock))
    /\ log' = Append(log, ErrLine(invoice_id))

\* parse_pdf_bytes(data, filename=invoice_id) for file f
ParseFile(f, invoice_id) == parse_pdf_bytes(f.data, invoice_id, clock)

\* one pass of the loop whose try block completes
LoopBody ==
    /\ pos <= Len(uploaded)
    /\ TryFile(uploaded[pos], extract_invoice_id(uploaded[pos].name),
               ParseFile(uploaded[pos], extract_invoice_id(uploaded[pos].name)))
    /\ clock' = clock + 1
    /\ pos' = pos + 1
    /\ UNCHANGED <<uploaded, pdf_bytes, filename, outcome>>

\* one pass of the loop whose try block raises
LoopExcept ==
    /\ pos <= Len(uploaded)
    /\ ExceptFile(uploaded[pos], extract_invoice_id(uploaded[pos].name),
                  ParseFile(uploaded[pos], extract_invoice_id(uploaded[pos].name)))
    /\ clock' = clock + 1
    /\ pos' = pos + 1
    /\ UNCHANGED <<uploaded, pdf_bytes, filename, outcome>>

NextBatch == LoopBody \/ LoopExcept

SpecBatch == InitBatch /\ [][NextBatch]_vars
(***************************************************************************)
(* What a document states, read from the facts of its pages                *)
(***************************************************************************)
HeaderSet == {HEADERS[i] : i \in 1..Len(HEADERS)}

\* the fact f of the first page that has one
FactAt(pages, f) ==
    LET at == {i \in 1..Len(pages) : PAGES[pages[i]][f] # None}
    IN  IF at = {} THEN None
        ELSE PAGES[pages[CHOOSE i \in at : \A j \in at : i <= j]][f]

\* a numeric token that the code converts is malformed, or the bytes are no PDF
Aborts(pdf) ==
    \/ ~pdf.valid
    \/ FactAt(pdf.pages, "row") = Some(Malformed)
    \/ /\ FactAt(pdf.pages, "row") = None
       /\ \/ FactAt(pdf.pages, "kg") = Some(Malformed)
          \/ FactAt(pdf.pages, "m3") = Some(Malformed)
    \/ FactAt(pdf.pages, "chg") = Some(Malformed)
    \/ /\ FactAt(pdf.pages, "sub") # None
       /\ FactAt(pdf.pages, "sub")[1].val = Malformed

\* the weight, volume and carton count stated: by the combined row if there is
\* one, else by the first standalone token
StatedDetail(pages, rowField, tokenFact) ==
    IF FactAt(pages, "row") # None THEN FactAt(pages, "row")[1][rowField]
    ELSE FactAt(pages, tokenFact)

\* the chargeable value stated: by the CHARGEABLE line if there is one, else by
\* the combined row if there is one
StatedChargeable(pages, field) ==
    IF FactAt(pages, "chg") # None THEN FactAt(pages, "chg")[1][field]
    ELSE IF FactAt(pages, "row") # None THEN FactAt(pages, "row")[1][field]
    ELSE None

\* the currency by the priority of the specification
StatedCurrency(pages) ==
    LET sub   == FactAt(pages, "sub")
        air   == FactAt(pages, "air")
        ocean == FactAt(pages, "ocean")
    IN  IF sub # None /\ sub[1].code # None THEN sub[1].code[1]
        ELSE IF air # None /\ air[1].code # None THEN air[1].code[1]
        ELSE IF ocean # None /\ ocean[1].code # None THEN ocean[1].code[1]
        ELSE IF \E i \in 1..Len(pages) : PAGES[pages[i]].tok THEN CAD
        ELSE USD

\* every field but Timestamp and Filename is None
AllNull(row) ==
    \A h \in HeaderSet \ {"Timestamp", "Filename"} : row[h] = None

Row == outcome.row

(***************************************************************************)
(* The claims                                                              *)
(***************************************************************************)
\* C1: whatever the bytes, the text and the label, parse_pdf_bytes returns
\* without raising, and the row has exactly the 13 keys of HEADERS with Filename
\* equal to the label passed.
C1_TotalWithAllHeaders ==
    outcome.done =>
        /\ ~outcome.raised
        /\ DOMAIN Row = HeaderSet
        /\ Cardinality(DOMAIN Row) = 13
        /\ Row.Filename = filename

\* C1 witness: a call on a PDF whose matched numeric token is malformed, under
\* a non-empty label, has returned.
C1_Witness ==
    /\ outcome.done
    /\ pdf_bytes.valid
    /\ Aborts(pdf_bytes)
    /\ filename # <<>>

\* C2: Chargeable_KG and Chargeable_CBM are never both non-null in a returned
\* row, on the normal path and on the error path.
C2_ChargeableExclusive ==
    outcome.done => ~(Row.Chargeable_KG # None /\ Row.Chargeable_CBM # None)

\* C2 witness: the combined row states a chargeable volume, a CHARGEABLE line
\* states a chargeable mass, and the row returned carries the mass.
C2_Witness ==
    /\ outcome.done
    /\ ~Aborts(pdf_bytes)
    /\ FactAt(pdf_bytes.pages, "row") # None
    /\ FactAt(pdf_bytes.pages, "row")[1].c_cbm # None
    /\ FactAt(pdf_bytes.pages, "chg") # None
    /\ FactAt(pdf_bytes.pages, "chg")[1].c_kg # None
    /\ Row.Chargeable_KG # None

\* C3 as claimed: when the numeric token matched for one field is malformed, the
\* other fields keep their values: the date and the shipper stated, and a
\* currency.
C3_OnlyThatFieldFails ==
    (outcome.done /\ pdf_bytes.valid /\ Aborts(pdf_bytes)) =>
        /\ Row.Invoice_Date = FactAt(pdf_bytes.pages, "date")
        /\ Row.Shipper = FactAt(pdf_bytes.pages, "shipper")
        /\ Row.Currency # None

\* C3 as amended: when the numeric token matched for a field is malformed, the
\* whole record degrades: every field but Timestamp and Filename is null.
C3_WholeRecordDegrades ==
    (outcome.done /\ pdf_bytes.valid /\ Aborts(pdf_bytes)) => AllNull(Row)

\* C3 witness: a document that states an invoice date and a malformed numeric
\* token has been parsed, and the date is lost.
C3_Witness ==
    /\ outcome.done
    /\ pdf_bytes.valid
    /\ Aborts(pdf_bytes)
    /\ FactAt(pdf_bytes.pages, "date") # None
    /\ Row.Invoice_Date = None

\* a text with none of the anchors: blank pages and lines of plain words
NoAnchors(pdf) ==
    /\ pdf.valid
    /\ \A i \in 1..Len(pdf.pages) : pdf.pages[i] \in {"BLANK", "B5"}

\* C4 as claimed: a text with none of the anchors gives, without an exception, a
\* row in which every field but Timestamp and Filename is null, Currency too.
C4_AllNullWithoutAnchors ==
    (outcome.done /\ NoAnchors(pdf_bytes)) => (~outcome.raised /\ AllNull(Row))

\* C4 as amended: a text with none of the anchors gives, without an exception, a
\* row in which Currency is the default "USD" and every other field but
\* Timestamp and Filename is null.
C4_DefaultCurrencyWithoutAnchors ==
    (outcome.done /\ NoAnchors(pdf_bytes)) =>
        /\ ~outcome.raised
        /\ Row.Currency = Some(USD)
        /\ \A h \in HeaderSet \ {"Timestamp", "Filename", "Currency"} : Row[h] = None

\* C4 witness: a document of plain words only has been parsed.
C4_Witness ==
    /\ outcome.done
    /\ NoAnchors(pdf_bytes)
    /\ \E i \in 1..Len(pdf_bytes.pages) : pdf_bytes.pages[i] = "B5"

\* C5 as claimed: on a successful extraction Currency is the code beside the
\* SUBTOTAL line, else the code beside the AIR FREIGHT line, else the code beside
\* the OCEAN/SEA FREIGHT line, else "CAD" if a token CAD, CDN or C$ appears
\* anywhere in the text, else "USD".
C5_CurrencyPriority ==
    (outcome.done /\ ~Aborts(pdf_bytes)) =>
        Row.Currency = Some(StatedCurrency(pdf_bytes.pages))

\* C5, the part of the claim the code keeps: the same priority on the documents
\* in which no C$ token is followed by a space or by the end of the text.
C5_PriorityUnlessDollarSpaced ==
    (/\ outcome.done
     /\ ~Aborts(pdf_bytes)
     /\ \A i \in 1..Len(pdf_bytes.pages) : ~PAGES[pdf_bytes.pages[i]].spaced) =>
        Row.Currency = Some(StatedCurrency(pdf_bytes.pages))

\* the freight line stated: the first air line if there is one, else the first
\* ocean or sea line
StatedFreight(pages) ==
    IF FactAt(pages, "air") # None
    THEN [mode |-> Some(<<"A", "i", "r">>), amount |-> Some(FactAt(pages, "air")[1].val)]
    ELSE IF FactAt(pages, "ocean") # None
    THEN [mode |-> Some(<<"O", "c", "e", "a", "n">>), amount |-> Some(FactAt(pages, "ocean")[1].val)]
    ELSE [mode |-> None, amount |-> None]

\* C6 as claimed: whatever else the text holds, the mode and the amount are
\* those of the first AIR FREIGHT line with a two-digit fraction if the text has
\* one, wherever it stands, else those of the first OCEAN/SEA FREIGHT line, else
\* both null.
C6_FreightWhateverElse ==
    outcome.done =>
        /\ Row.Freight_Mode = StatedFreight(pdf_bytes.pages).mode
        /\ Row.Freight_Amount = StatedFreight(pdf_bytes.pages).amount

\* C6 as amended: in every row returned Freight_Mode is null exactly when
\* Freight_Amount is; in a row built by the try block the mode and the amount are
\* those of the first AIR FREIGHT line with a two-digit fraction if the text has
\* one, wherever it stands, else those of the first OCEAN/SEA FREIGHT line, else
\* null; and both are null when a malformed numeric token degrades the record.
C6_AirBeforeOcean ==
    outcome.done =>
        /\ (Row.Freight_Mode = None) <=> (Row.Freight_Amount = None)
        /\ IF Aborts(pdf_bytes)
           THEN Row.Freight_Mode = None
           ELSE /\ Row.Freight_Mode = StatedFreight(pdf_bytes.pages).mode
                /\ Row.Freight_Amount = StatedFreight(pdf_bytes.pages).amount

\* C6 witness: an ocean freight line precedes an air freight line and the row
\* returned reports the air line.
C6_Witness ==
    /\ outcome.done
    /\ \E i, j \in 1..Len(pdf_bytes.pages) :
          /\ i < j
          /\ PAGES[pdf_bytes.pages[i]].ocean # None
          /\ PAGES[pdf_bytes.pages[j]].air # None
          /\ Row.Freight_Amount = Some(PAGES[pdf_bytes.pages[j]].air[1].val)
    /\ Row.Freight_Mode = Some(<<"A", "i", "r">>)

\* C7 as claimed: whatever else the text holds, with a CHARGEABLE line of a
\* well-formed value the chargeable fields are those of the line: a mass in
\* Chargeable_KG, in kilograms, with Chargeable_CBM null; a volume in
\* Chargeable_CBM with Chargeable_KG null.
C7_OverrideWhateverElse ==
    (/\ outcome.done
     /\ FactAt(pdf_bytes.pages, "chg") # None
     /\ FactAt(pdf_bytes.pages, "chg") # Some(Malformed)) =>
        /\ Row.Chargeable_KG = FactAt(pdf_bytes.pages, "chg")[1].c_kg
        /\ Row.Chargeable_CBM = FactAt(pdf_bytes.pages, "chg")[1].c_cbm

\* C7 as amended: in a row built by the try block of a text with a CHARGEABLE
\* line, the chargeable fields are those of the line (a mass in Chargeable_KG, in
\* kilograms, with Chargeable_CBM null; a volume in Chargeable_CBM with
\* Chargeable_KG null), whatever the combined row stated, and Weight_KG,
\* Volume_M3 and Packages are those of the detail step; when a malformed numeric
\* token, that of the line included, degrades the record, both chargeable fields
\* are null.
C7_OverrideReplaces ==
    (outcome.done /\ pdf_bytes.valid /\ FactAt(pdf_bytes.pages, "chg") # None) =>
        IF Aborts(pdf_bytes)
        THEN Row.Chargeable_KG = None /\ Row.Chargeable_CBM = None
        ELSE /\ Row.Chargeable_KG = FactAt(pdf_bytes.pages, "chg")[1].c_kg
             /\ Row.Chargeable_CBM = FactAt(pdf_bytes.pages, "chg")[1].c_cbm
             /\ Row.Weight_KG = StatedDetail(pdf_bytes.pages, "w_kg", "kg")
             /\ Row.Volume_M3 = StatedDetail(pdf_bytes.pages, "v_m3", "m3")
             /\ Row.Packages = StatedDetail(pdf_bytes.pages, "packs", "ctn")

\* C7 witness: the combined row states a chargeable mass, a CHARGEABLE line
\* states a volume, and the row returned carries the volume and no mass.
C7_Witness ==
    /\ outcome.done
    /\ ~Aborts(pdf_bytes)
    /\ FactAt(pdf_bytes.pages, "row") # None
    /\ FactAt(pdf_bytes.pages, "row")[1].c_kg # None
    /\ FactAt(pdf_bytes.pages, "chg") # None
    /\ FactAt(pdf_bytes.pages, "chg")[1].c_cbm # None
    /\ Row.Chargeable_CBM = FactAt(pdf_bytes.pages, "chg")[1].c_cbm
    /\ Row.Chargeable_KG = None
    /\ Row.Weight_KG = FactAt(pdf_bytes.pages, "row")[1].w_kg

\* C8 as claimed: on a successful extraction a weight stated as N LB gives
\* Weight_KG = N x 0.453592 and one stated as N KG or N KGS gives N, for the
\* weight of the combined row and, without a combined row, for the standalone
\* weight: the first KG token or, when the text has none, the weight in pounds.
C8_PoundsConvertedEverywhere ==
    (outcome.done /\ ~Aborts(pdf_bytes)) =>
        Row.Weight_KG =
            IF FactAt(pdf_bytes.pages, "row") # None
            THEN FactAt(pdf_bytes.pages, "row")[1].w_kg
            ELSE IF FactAt(pdf_bytes.pages, "kg") # None
            THEN FactAt(pdf_bytes.pages, "kg")
            ELSE FactAt(pdf_bytes.pages, "lb")

\* C8 as amended: every mass reported is in kilograms: a Weight_KG reported is
\* the weight stated by the combined row, N for N KG or N KGS and N x 0.453592
\* for N LB, or else the number of the first KG token; a Chargeable_KG reported
\* is the chargeable mass stated by the CHARGEABLE line or else by the combined
\* row, converted the same way; and without a combined row and a KG token no
\* weight is reported, a standalone weight in pounds included.
C8_MassInKilograms ==
    outcome.done =>
        /\ Row.Weight_KG # None =>
              Row.Weight_KG = StatedDetail(pdf_bytes.pages, "w_kg", "kg")
        /\ Row.Chargeable_KG # None =>
              Row.Chargeable_KG = StatedChargeable(pdf_bytes.pages, "c_kg")
        /\ (FactAt(pdf_bytes.pages, "row") = None /\ FactAt(pdf_bytes.pages, "kg") = None) =>
              Row.Weight_KG = None

\* C8 witness: the combined row states 10 LB and the row returned reports
\* 4.53592 kilograms.
C8_Witness ==
    /\ outcome.done
    /\ FactAt(pdf_bytes.pages, "row") = PAGES["R2"].row
    /\ Row.Weight_KG = Some(Dec(453592, -5))

\* C9 as claimed: whatever else the text holds, when the combined row matches
\* with well-formed values, Weight_KG, Volume_M3 and Packages are those of that
\* row; when it does not, each of the three is that of the first standalone
\* token of its kind, if well-formed.
C9_TiersWhateverElse ==
    outcome.done =>
        /\ (/\ FactAt(pdf_bytes.pages, "row") # None
            /\ FactAt(pdf_bytes.pages, "row") # Some(Malformed)) =>
              /\ Row.Weight_KG = FactAt(pdf_bytes.pages, "row")[1].w_kg
              /\ Row.Volume_M3 = FactAt(pdf_bytes.pages, "row")[1].v_m3
              /\ Row.Packages = FactAt(pdf_bytes.pages, "row")[1].packs
        /\ (/\ FactAt(pdf_bytes.pages, "row") = None
            /\ FactAt(pdf_bytes.pages, "kg") # Some(Malformed)
            /\ FactAt(pdf_bytes.pages, "m3") # Some(Malformed)) =>
              /\ Row.Weight_KG = FactAt(pdf_bytes.pages, "kg")
              /\ Row.Volume_M3 = FactAt(pdf_bytes.pages, "m3")
              /\ Row.Packages = FactAt(pdf_bytes.pages, "ctn")

\* C9 as amended: in a row built by the try block, when the combined row
\* matches, Weight_KG, Volume_M3, Packages and the chargeable field are those of
\* that row (a mass in Chargeable_KG, else Chargeable_CBM) and the standalone
\* tokens contribute nothing; when it does not, each of the three is that of the
\* first standalone token of its kind; without a CHARGEABLE line the chargeable
\* fields are those of the combined row, and null when there is none; and when a
\* malformed numeric token degrades the record all five fields are null.
C9_TwoTiers ==
    outcome.done =>
        IF Aborts(pdf_bytes)
        THEN /\ Row.Weight_KG = None /\ Row.Volume_M3 = None /\ Row.Packages = None
             /\ Row.Chargeable_KG = None /\ Row.Chargeable_CBM = None
        ELSE /\ Row.Weight_KG = StatedDetail(pdf_bytes.pages, "w_kg", "kg")
             /\ Row.Volume_M3 = StatedDetail(pdf_bytes.pages, "v_m3", "m3")
             /\ Row.Packages = StatedDetail(pdf_bytes.pages, "packs", "ctn")
             /\ FactAt(pdf_bytes.pages, "chg") = None =>
                   /\ Row.Chargeable_KG = StatedChargeable(pdf_bytes.pages, "c_kg")
                   /\ Row.Chargeable_CBM = StatedChargeable(pdf_bytes.pages, "c_cbm")
                   /\ FactAt(pdf_bytes.pages, "row") = None =>
                         (Row.Chargeable_KG = None /\ Row.Chargeable_CBM = None)

\* C9 witness: a standalone weight precedes a combined row that states another
\* weight, and the row returned reports the weight of the combined row.
C9_Witness ==
    /\ outcome.done
    /\ ~Aborts(pdf_bytes)
    /\ \E i, j \in 1..Len(pdf_bytes.pages) :
          /\ i < j
          /\ PAGES[pdf_bytes.pages[i]].row = None
          /\ PAGES[pdf_bytes.pages[i]].kg # None
          /\ PAGES[pdf_bytes.pages[j]].row # None
          /\ PAGES[pdf_bytes.pages[j]].row[1].w_kg # PAGES[pdf_bytes.pages[i]].kg
          /\ Row.Weight_KG = PAGES[pdf_bytes.pages[j]].row[1].w_kg

\* the invoice id a file name carries
StatedId(f) == (CHOOSE n \in NAMES : n.name = f.name).id

\* the row of file f: the minimal row when the file cannot be read or parsed,
\* else the fields its document states
RowOfFile(row, f) ==
    /\ DOMAIN row = HeaderSet
    /\ row.Filename = StatedId(f)
    /\ IF ~f.readable \/ Aborts(f.data) THEN AllNull(row)
       ELSE /\ row.Currency = Some(StatedCurrency(f.data.pages))
            /\ row.Weight_KG = StatedDetail(f.data.pages, "w_kg", "kg")
            /\ row.Chargeable_KG = StatedChargeable(f.data.pages, "c_kg")
            /\ row.Packages = StatedDetail(f.data.pages, "packs", "ctn")

\* C10: at every point of the batch loop rows holds one row per file passed, in
\* upload order, each with the 13 columns, the Filename extract_invoice_id
\* gives and the fields of its own file, failed files included; a pass appends
\* one row and leaves the earlier rows as they were.
C10_OneRowPerFile ==
    /\ [](/\ Len(rows) = pos - 1
          /\ pos <= Len(uploaded) + 1
          /\ \A k \in 1..Len(rows) : RowOfFile(rows[k], uploaded[k]))
    /\ [][/\ Len(rows') = Len(rows) + 1
          /\ SubSeq(rows', 1, Len(rows)) = rows
          /\ uploaded' = uploaded]_vars

\* C10 witness: the loop has ended on two files, the first unreadable and the
\* second parsed, with a row for each.
C10_Witness ==
    /\ pos = Len(uploaded) + 1
    /\ Len(uploaded) = 2
    /\ ~uploaded[1].readable
    /\ uploaded[2].readable
    /\ ~Aborts(uploaded[2].data)
    /\ Len(rows) = 2
    /\ rows[2].Weight_KG # None
=============================================================================
